---- MODULE Spec2Model ----
(***************************************************************************)
(* Model of the sliding puzzle core (SlidingPuzzleGame) and of the GUI     *)
(* handlers that drive it, src/sliding_puzzle_python.py.                   *)
(*                                                                         *)
(* A grid is a function  row -> (col -> value)  over 0..size-1, as the     *)
(* list of lists self.grid; blank_pos is the pair <<row, col>>.            *)
(***************************************************************************)
EXTENDS Integers, Sequences, FiniteSets, TLC

VARIABLES
    difficulty,   \* self.difficulty, by name
    size,         \* self.size
    grid,         \* self.grid
    blank_pos,    \* self.blank_pos (the cached coordinate of the blank)
    moves,        \* self.stats.moves
    start_time,   \* self.stats.start_time
    clock,        \* the wall clock that time.time() reads
    pc,           \* where the program is: "shuffle" in the loop of
                  \* _shuffle_puzzle, "idle" between two handlers
    turn,         \* the iterations of that loop already run
    locals,       \* the locals of _shuffle_puzzle: shuffled, blank_row,
                  \* blank_col
    op,           \* the call that produced this state, or that is running
    arg,          \* the <<row, col>> of that call (move_tile)
    ret,          \* what that call returned
    repaired,     \* whether the last generate ran its _make_solvable branch
    accepted,     \* accepted move_tile calls since the last generate
    win_message,  \* whether that call ran show_win_message
    before,       \* the board and stats.moves before that call
    board,        \* board specification: the board the functions are applied to
    origin        \* board specification: the board the slides started from

vars == <<difficulty, size, grid, blank_pos, moves, start_time, clock,
          pc, turn, locals, op, arg, ret, repaired, accepted, win_message,
          before, board, origin>>

(***************************************************************************)
(* Bounds of the model.                                                    *)
(***************************************************************************)
\* stats.moves is capped: a move is accepted only while moves < MaxMoves
MaxMoves == 2
\* the shuffle is followed while it leaves at most MaxScrambled tiles off
\* their cell of the solved board
MaxScrambled == 3
\* the clock runs over 0..MaxClock
MaxClock == 1
\* move_tile is called with row and col in -ArgSlack .. size-1+ArgSlack
ArgSlack == 1
\* the core is constructed with board sizes down to -MaxBadSize
MaxBadSize == 1

(***************************************************************************)
(* class Difficulty(Enum)                                                  *)
(***************************************************************************)
Difficulties == <<"EASY", "MEDIUM", "HARD", "EXPERT">>

EASY == 3
MEDIUM == 4
HARD == 5
EXPERT == 6

DifficultyValue(d) ==
    CASE d = "EASY" -> EASY
      [] d = "MEDIUM" -> MEDIUM
      [] d = "HARD" -> HARD
      [] d = "EXPERT" -> EXPERT

Abs(x) == IF x < 0 THEN -x ELSE x

Idx(n) == 0 .. (n - 1)

(***************************************************************************)
(* The solved puzzle that generate_solvable_puzzle starts from.            *)
(***************************************************************************)
SolvedGrid(n) ==
    [row \in Idx(n) |->
        [col \in Idx(n) |->
            IF row = n - 1 /\ col = n - 1 THEN 0 ELSE row * n + col + 1]]

(***************************************************************************)
(* _find_blank_position: the first cell, in row-major order, that holds 0; *)
(* (0, 0) when there is none.                                              *)
(***************************************************************************)
RECURSIVE FindBlankFrom(_, _, _)
FindBlankFrom(g, n, k) ==
    IF k >= n * n THEN <<0, 0>>
    ELSE IF g[k \div n][k % n] = 0 THEN <<k \div n, k % n>>
    ELSE FindBlankFrom(g, n, k + 1)

_find_blank_position(g, n) == FindBlankFrom(g, n, 0)

(***************************************************************************)
(* _check_solvability                                                      *)
(***************************************************************************)
\* flat_puzzle: the row-major flattening without the blank
RECURSIVE FlatFrom(_, _, _)
FlatFrom(g, n, k) ==
    IF k >= n * n THEN <<>>
    ELSE LET num == g[k \div n][k % n]
         IN  IF num # 0 THEN <<num>> \o FlatFrom(g, n, k + 1)
                        ELSE FlatFrom(g, n, k + 1)

flat_puzzle(g, n) == FlatFrom(g, n, 0)

\* the double loop: inversions += 1 for each i < j with flat[i] > flat[j]
RECURSIVE CountInner(_, _, _)
CountInner(flat, i, j) ==
    IF j > Len(flat) THEN 0
    ELSE (IF flat[i] > flat[j] THEN 1 ELSE 0) + CountInner(flat, i, j + 1)

RECURSIVE CountOuter(_, _)
CountOuter(flat, i) ==
    IF i > Len(flat) THEN 0
    ELSE CountInner(flat, i, i + 1) + CountOuter(flat, i + 1)

count_inversions(flat) == CountOuter(flat, 1)

\* _check_solvability without lines 106-108: the blank's row is not counted
_check_solvability_no_blank_row(g, n) ==
    count_inversions(flat_puzzle(g, n)) % 2 = 0

\* _check_solvability with the test of line 102 as size % 2 == 0: the odd
\* and the even rule exchanged
_check_solvability_odd_even_swapped(g, n) ==
    LET inversions == count_inversions(flat_puzzle(g, n))
    IN  IF n % 2 = 0
        THEN inversions % 2 = 0
        ELSE LET blank_row == _find_blank_position(g, n)[1]
                 blank_from_bottom == n - blank_row
             IN  (inversions + blank_from_bottom) % 2 = 1

_check_solvability(g, n) ==
    LET inversions == count_inversions(flat_puzzle(g, n))
    IN  IF n % 2 = 1
        THEN inversions % 2 = 0
        ELSE LET blank_row == _find_blank_position(g, n)[1]
                 blank_from_bottom == n - blank_row
             IN  (inversions + blank_from_bottom) % 2 = 1

(***************************************************************************)
(* _make_solvable: swap the first two non-blank cells in row-major order.  *)
(***************************************************************************)
RECURSIVE NonBlankFrom(_, _, _)
NonBlankFrom(g, n, k) ==
    IF k >= n * n THEN <<>>
    ELSE IF g[k \div n][k % n] # 0
         THEN <<(<<k \div n, k % n>>)>> \o NonBlankFrom(g, n, k + 1)
         ELSE NonBlankFrom(g, n, k + 1)

non_blank_tiles(g, n) == NonBlankFrom(g, n, 0)

\* _make_solvable without the test of line 115: the first two cells are
\* swapped, the blank included
_make_solvable_any_cells(g, n) ==
    LET r1 == 0
        c1 == 0
        r2 == 1 \div n
        c2 == 1 % n
        g1 == [g EXCEPT ![r1][c1] = g[r2][c2]]
    IN  [g1 EXCEPT ![r2][c2] = g[r1][c1]]

_make_solvable(g, n) ==
    LET tiles == non_blank_tiles(g, n)
    IN  IF Len(tiles) >= 2
        THEN LET r1 == tiles[1][1]
                 c1 == tiles[1][2]
                 r2 == tiles[2][1]
                 c2 == tiles[2][2]
                 g1 == [g EXCEPT ![r1][c1] = g[r2][c2]]
             IN  [g1 EXCEPT ![r2][c2] = g[r1][c1]]
        ELSE g

(***************************************************************************)
(* _shuffle_puzzle.  A direction is <<dr, dc>>; random.shuffle(directions) *)
(* returns one of the 24 orderings of the four directions, listed here.    *)
(***************************************************************************)
DirR == <<0, 1>>
DirL == <<0, -1>>
DirD == <<1, 0>>
DirU == <<-1, 0>>

DirOrders ==
    << <<DirR, DirL, DirD, DirU>>, <<DirD, DirU, DirR, DirL>>,
       <<DirD, DirU, DirL, DirR>>, <<DirR, DirL, DirU, DirD>>,
       <<DirR, DirD, DirL, DirU>>, <<DirR, DirD, DirU, DirL>>,
       <<DirR, DirU, DirL, DirD>>, <<DirR, DirU, DirD, DirL>>,
       <<DirD, DirR, DirL, DirU>>, <<DirD, DirR, DirU, DirL>>,
       <<DirD, DirL, DirR, DirU>>, <<DirD, DirL, DirU, DirR>>,
       <<DirL, DirR, DirD, DirU>>, <<DirL, DirR, DirU, DirD>>,
       <<DirL, DirD, DirR, DirU>>, <<DirL, DirD, DirU, DirR>>,
       <<DirL, DirU, DirR, DirD>>, <<DirL, DirU, DirD, DirR>>,
       <<DirU, DirR, DirL, DirD>>, <<DirU, DirR, DirD, DirL>>,
       <<DirU, DirL, DirR, DirD>>, <<DirU, DirL, DirD, DirR>>,
       <<DirU, DirD, DirR, DirL>>, <<DirU, DirD, DirL, DirR>> >>

\* what random.shuffle(directions) can leave in directions, line 73: any
\* of the 24 orderings
RandomOrders == {DirOrders[i] : i \in 1 .. Len(DirOrders)}

\* TryDirections with line 81 updating blank_row alone: the two cells are
\* exchanged and the column of the blank is left behind
RECURSIVE TryDirections_stale_col(_, _, _, _)
TryDirections_stale_col(s, n, directions, k) ==
    IF k > Len(directions) THEN s
    ELSE LET new_row == s.blank_row + directions[k][1]
             new_col == s.blank_col + directions[k][2]
         IN  IF 0 <= new_row /\ new_row < n /\ 0 <= new_col /\ new_col < n
             THEN [shuffled |->
                      [[s.shuffled EXCEPT ![s.blank_row][s.blank_col] =
                                             s.shuffled[new_row][new_col]]
                          EXCEPT ![new_row][new_col] =
                                             s.shuffled[s.blank_row][s.blank_col]],
                   blank_row |-> new_row,
                   blank_col |-> s.blank_col]
             ELSE TryDirections_stale_col(s, n, directions, k + 1)

\* for dr, dc in directions: the first direction that stays on the board
\* moves the blank there (break); s is [shuffled, blank_row, blank_col]
RECURSIVE TryDirections(_, _, _, _)
TryDirections(s, n, directions, k) ==
    IF k > Len(directions) THEN s
    ELSE LET new_row == s.blank_row + directions[k][1]
             new_col == s.blank_col + directions[k][2]
         IN  IF 0 <= new_row /\ new_row < n /\ 0 <= new_col /\ new_col < n
             THEN [shuffled |->
                      [[s.shuffled EXCEPT ![s.blank_row][s.blank_col] =
                                             s.shuffled[new_row][new_col]]
                          EXCEPT ![new_row][new_col] = 0],
                   blank_row |-> new_row,
                   blank_col |-> new_col]
             ELSE TryDirections(s, n, directions, k + 1)

ShuffleIteration(s, n, directions) == TryDirections(s, n, directions, 1)

\* one iteration of the loop from each of the states S
ShuffleStep(S, n) ==
    {ShuffleIteration(s, n, d) : s \in S, d \in RandomOrders}

\* the states the loop can be in after `iters` iterations from S (the
\* iterations are run half by half, each half evaluated before the next,
\* to keep the evaluation shallow)
RECURSIVE ShuffleLoop(_, _, _)
ShuffleLoop(S, n, iters) ==
    IF iters = 0 THEN S
    ELSE IF iters = 1 THEN ShuffleStep(S, n)
    ELSE LET half == ShuffleLoop(S, n, iters \div 2)
         IN  IF half = {} THEN {}
             ELSE ShuffleLoop(half, n, iters - (iters \div 2))

ShuffleFactor == 10

\* the loop of line 71 with one iteration more
shuffle_iterations_one_more(n) == n * n * ShuffleFactor + 1

\* range(self.size * self.size * 10), line 71: the iterations of the loop
shuffle_iterations(n) == n * n * ShuffleFactor

\* the boards _shuffle_puzzle can return from grid g with the blank at bp
_shuffle_puzzle(g, bp, n) ==
    {s.shuffled :
        s \in ShuffleLoop({[shuffled |-> g, blank_row |-> bp[1],
                            blank_col |-> bp[2]]},
                          n, shuffle_iterations(n))}

\* the loop of lines 71-84 from state s when random.shuffle leaves the same
\* ordering `directions` in every one of its `iters` iterations (run half
\* by half, as ShuffleLoop)
RECURSIVE ShuffleRun(_, _, _, _)
ShuffleRun(s, n, directions, iters) ==
    IF iters = 0 THEN s
    ELSE IF iters = 1 THEN ShuffleIteration(s, n, directions)
    ELSE LET half == ShuffleRun(s, n, directions, iters \div 2)
         IN  IF half.blank_row < 0 THEN half
             ELSE ShuffleRun(half, n, directions, iters - (iters \div 2))

\* the board _shuffle_puzzle returns from grid g with the blank at bp when
\* random.shuffle leaves `directions` every time
shuffle_puzzle_with(g, bp, n, directions) ==
    ShuffleRun([shuffled |-> g, blank_row |-> bp[1], blank_col |-> bp[2]],
               n, directions, shuffle_iterations(n)).shuffled

(***************************************************************************)
(* can_move_tile, move_tile, is_solved                                     *)
(***************************************************************************)
\* can_move_tile with line 144 accepting the diagonal neighbours as well
can_move_tile_diagonal(g, bp, n, row, col) ==
    IF ~(0 <= row /\ row < n /\ 0 <= col /\ col < n) THEN FALSE
    ELSE IF g[row][col] = 0 THEN FALSE
    ELSE LET row_diff == Abs(row - bp[1])
             col_diff == Abs(col - bp[2])
         IN  row_diff <= 1 /\ col_diff <= 1

\* can_move_tile with the first disjunct of line 144 missing: only a tile
\* in the blank's row is accepted
can_move_tile_same_row(g, bp, n, row, col) ==
    IF ~(0 <= row /\ row < n /\ 0 <= col /\ col < n) THEN FALSE
    ELSE IF g[row][col] = 0 THEN FALSE
    ELSE LET row_diff == Abs(row - bp[1])
             col_diff == Abs(col - bp[2])
         IN  row_diff = 0 /\ col_diff = 1

\* can_move_tile with the bounds test of line 135 as 0 < row, 0 < col
can_move_tile_strict_bounds(g, bp, n, row, col) ==
    IF ~(0 < row /\ row < n /\ 0 < col /\ col < n) THEN FALSE
    ELSE IF g[row][col] = 0 THEN FALSE
    ELSE LET row_diff == Abs(row - bp[1])
             col_diff == Abs(col - bp[2])
         IN  (row_diff = 1 /\ col_diff = 0) \/ (row_diff = 0 /\ col_diff = 1)

\* can_move_tile with lines 141-142 without abs()
can_move_tile_no_abs(g, bp, n, row, col) ==
    IF ~(0 <= row /\ row < n /\ 0 <= col /\ col < n) THEN FALSE
    ELSE IF g[row][col] = 0 THEN FALSE
    ELSE LET row_diff == row - bp[1]
             col_diff == col - bp[2]
         IN  (row_diff = 1 /\ col_diff = 0) \/ (row_diff = 0 /\ col_diff = 1)

can_move_tile(g, bp, n, row, col) ==
    IF ~(0 <= row /\ row < n /\ 0 <= col /\ col < n) THEN FALSE
    ELSE IF g[row][col] = 0 THEN FALSE
    ELSE LET row_diff == Abs(row - bp[1])
             col_diff == Abs(col - bp[2])
         IN  (row_diff = 1 /\ col_diff = 0) \/ (row_diff = 0 /\ col_diff = 1)

\* swap_tiles without line 154: the cached blank position is left behind
swap_tiles_stale_blank(g, bp, row, col) ==
    [grid |-> [[g EXCEPT ![bp[1]][bp[2]] = g[row][col]]
                  EXCEPT ![row][col] = 0],
     blank_pos |-> bp]

\* swap_tiles without line 152: the tile is blanked and not put down
swap_tiles_lost_tile(g, bp, row, col) ==
    [grid |-> [g EXCEPT ![row][col] = 0],
     blank_pos |-> <<row, col>>]

\* the grid and blank_pos move_tile leaves when the move is accepted
swap_tiles(g, bp, row, col) ==
    [grid |-> [[g EXCEPT ![bp[1]][bp[2]] = g[row][col]]
                  EXCEPT ![row][col] = 0],
     blank_pos |-> <<row, col>>]

RECURSIVE IsSolvedFrom(_, _, _, _)
IsSolvedFrom(g, n, k, expected) ==
    IF k >= n * n THEN TRUE
    ELSE IF k \div n = n - 1 /\ k % n = n - 1 THEN g[k \div n][k % n] = 0
    ELSE IF g[k \div n][k % n] # expected THEN FALSE
    ELSE IsSolvedFrom(g, n, k + 1, expected + 1)

\* is_solved with line 164 testing the row alone: the scan stops at the
\* first cell of the last row
RECURSIVE IsSolvedFromRowOnly(_, _, _, _)
IsSolvedFromRowOnly(g, n, k, expected) ==
    IF k >= n * n THEN TRUE
    ELSE IF k \div n = n - 1 THEN g[k \div n][k % n] = 0
    ELSE IF g[k \div n][k % n] # expected THEN FALSE
    ELSE IsSolvedFromRowOnly(g, n, k + 1, expected + 1)

is_solved_row_only(g, n) == IsSolvedFromRowOnly(g, n, 0, 1)

is_solved(g, n) == IsSolvedFrom(g, n, 0, 1)

(***************************************************************************)
(* generate_solvable_puzzle.  generate_board is lines 54-60 on the board   *)
(* the shuffle returned: the blank position, the solvability check and the *)
(* repair.  The game runs the call step by step, one iteration of the      *)
(* shuffle at a time; generate_outcomes is the call as a function, every   *)
(* board it can leave.                                                     *)
(***************************************************************************)
\* generate_board with the test of line 58 inverted
generate_board_inverted(shuffled, n) ==
    LET blank1 == _find_blank_position(shuffled, n)
    IN  IF _check_solvability(shuffled, n)
        THEN LET fixed == _make_solvable(shuffled, n)
             IN  [grid |-> fixed,
                  blank_pos |-> _find_blank_position(fixed, n),
                  repaired |-> TRUE]
        ELSE [grid |-> shuffled, blank_pos |-> blank1, repaired |-> FALSE]

\* lines 54-60 on the board the shuffle returned
generate_board(shuffled, n) ==
    LET blank1 == _find_blank_position(shuffled, n)
    IN  IF ~_check_solvability(shuffled, n)
        THEN LET fixed == _make_solvable(shuffled, n)
             IN  [grid |-> fixed,
                  blank_pos |-> _find_blank_position(fixed, n),
                  repaired |-> TRUE]
        ELSE [grid |-> shuffled, blank_pos |-> blank1, repaired |-> FALSE]

\* every board lines 48-60 can leave on a game of size n
generate_outcomes(n) ==
    {generate_board(shuffled, n) :
        shuffled \in _shuffle_puzzle(SolvedGrid(n), <<n - 1, n - 1>>, n)}

\* what generate leaves on a board of size n when random.shuffle leaves the
\* same ordering in every iteration of the shuffle, for each ordering
constant_outcomes(n) ==
    {generate_board(shuffle_puzzle_with(SolvedGrid(n), <<n - 1, n - 1>>, n, d), n) :
        d \in RandomOrders}

DifficultyValues == {DifficultyValue(Difficulties[i]) : i \in 1 .. Len(Difficulties)}

Cells(n) == Idx(n) \X Idx(n)

\* the tiles of g that are not on their cell of the solved board
scrambled(g, n) ==
    Cardinality({rc \in Cells(n) :
                    g[rc[1]][rc[2]] # 0 /\ g[rc[1]][rc[2]] # SolvedGrid(n)[rc[1]][rc[2]]})

\* locals, when _shuffle_puzzle is not running
NoLocals == <<>>

\* self.generate_solvable_puzzle() on a game of size n up to the loop of
\* the shuffle: lines 48-51 put the solved puzzle in self.grid and the
\* corner in self.blank_pos, lines 67-68 copy them to the locals.  The
\* statistics are not touched before line 62.
generate_solvable_puzzle_begin(n) ==
    /\ grid' = SolvedGrid(n)
    /\ blank_pos' = <<n - 1, n - 1>>
    /\ locals' = [shuffled |-> SolvedGrid(n), blank_row |-> n - 1, blank_col |-> n - 1]
    /\ turn' = 0
    /\ pc' = "shuffle"

\* what one iteration of the loop, lines 72-82, can leave in the locals:
\* one outcome for each ordering random.shuffle can leave in directions
shuffle_turn(s, n) ==
    {ShuffleIteration(s, n, directions) : directions \in RandomOrders}

\* generate_solvable_puzzle after the loop without line 62: the statistics
\* are kept
generate_solvable_puzzle_end_keeps_stats ==
    LET o == generate_board(locals.shuffled, size)
    IN  /\ grid' = o.grid
        /\ blank_pos' = o.blank_pos
        /\ repaired' = o.repaired
        /\ moves' = moves
        /\ start_time' = clock
        /\ locals' = NoLocals
        /\ turn' = 0
        /\ pc' = "idle"

\* generate_solvable_puzzle after the loop: line 54 takes the board the
\* shuffle returns, lines 55-60 find the blank, check and repair, lines
\* 62-63 reset the statistics; the handler that called it only redraws
generate_solvable_puzzle_end ==
    LET o == generate_board(locals.shuffled, size)
    IN  /\ grid' = o.grid
        /\ blank_pos' = o.blank_pos
        /\ repaired' = o.repaired
        /\ moves' = 0
        /\ start_time' = clock
        /\ locals' = NoLocals
        /\ turn' = 0
        /\ pc' = "idle"

(***************************************************************************)
\* before, when no call was made or the call did not touch the board
NoCall == [grid |-> <<>>, blank_pos |-> <<>>, moves |-> 0, undo |-> FALSE]

\* board, when no board is under test
NoBoard == [size |-> 0, grid |-> <<>>, blank_pos |-> <<>>]

(***************************************************************************)
(* The operations.  op, arg and accepted record the calls made; the        *)
(* wrappers set them, the operations themselves do not.  ret is what the   *)
(* call returned, or the exception it raised.                              *)
(***************************************************************************)
\* SlidingPuzzleGUI() constructs SlidingPuzzleGame() at line 188, an EASY
\* game: lines 38-42 set the fields, and generate_solvable_puzzle has
\* reached the loop of the shuffle
Init ==
    /\ difficulty = "EASY"
    /\ size = DifficultyValue(difficulty)
    /\ grid = SolvedGrid(size)
    /\ blank_pos = <<size - 1, size - 1>>
    /\ locals = [shuffled |-> SolvedGrid(size), blank_row |-> size - 1,
                 blank_col |-> size - 1]
    /\ turn = 0
    /\ pc = "shuffle"
    /\ clock = 0
    /\ moves = 0
    /\ start_time = 0
    /\ accepted = 0
    /\ repaired = FALSE
    /\ op = "init"
    /\ arg = <<>>
    /\ ret = "None"
    /\ win_message = FALSE
    /\ before = NoCall
    /\ board = NoBoard
    /\ origin = "game"

\* move_tile without line 155: the move is made and not counted
move_tile_uncounted(row, col) ==
    /\ IF ~can_move_tile(grid, blank_pos, size, row, col)
       THEN /\ ret' = "False"
            /\ UNCHANGED <<grid, blank_pos, moves>>
       ELSE /\ grid' = swap_tiles(grid, blank_pos, row, col).grid
            /\ blank_pos' = swap_tiles(grid, blank_pos, row, col).blank_pos
            /\ moves' = moves
            /\ ret' = "True"
    /\ UNCHANGED <<difficulty, size, start_time, repaired>>

\* move_tile counting the call before the test of line 148
move_tile_counts_rejected(row, col) ==
    /\ IF ~can_move_tile(grid, blank_pos, size, row, col)
       THEN /\ ret' = "False"
            /\ moves' = moves + 1
            /\ UNCHANGED <<grid, blank_pos>>
       ELSE /\ grid' = swap_tiles(grid, blank_pos, row, col).grid
            /\ blank_pos' = swap_tiles(grid, blank_pos, row, col).blank_pos
            /\ moves' = moves + 1
            /\ ret' = "True"
    /\ UNCHANGED <<difficulty, size, start_time, repaired>>

\* SlidingPuzzleGame.move_tile(row, col)
move_tile(row, col) ==
    /\ IF ~can_move_tile(grid, blank_pos, size, row, col)
       THEN /\ ret' = "False"
            /\ UNCHANGED <<grid, blank_pos, moves>>
       ELSE /\ grid' = swap_tiles(grid, blank_pos, row, col).grid
            /\ blank_pos' = swap_tiles(grid, blank_pos, row, col).blank_pos
            /\ moves' = moves + 1
            /\ ret' = "True"
    /\ UNCHANGED <<difficulty, size, start_time, repaired>>

\* on_tile_click showing the message whenever the board is solved after
\* the call, without the test of line 331 on what move_tile returned
on_tile_click_unchecked(row, col) ==
    /\ move_tile(row, col)
    /\ win_message' = is_solved(grid', size)

\* SlidingPuzzleGUI.on_tile_click(row, col): show_win_message runs when
\* move_tile returned True and is_solved() is True after it
on_tile_click(row, col) ==
    /\ move_tile(row, col)
    /\ win_message' = (ret' = "True" /\ is_solved(grid', size))

\* SlidingPuzzleGUI.restart_game, up to the loop of the shuffle
restart_game ==
    /\ generate_solvable_puzzle_begin(size)
    /\ UNCHANGED <<difficulty, size, moves, start_time, repaired>>

next_difficulty(d) ==
    LET current_index == CHOOSE i \in 1 .. Len(Difficulties) : Difficulties[i] = d
        next_index == (current_index % Len(Difficulties)) + 1
    IN  Difficulties[next_index]

\* SlidingPuzzleGUI.change_difficulty, up to the loop of the shuffle: lines
\* 360-365 set the difficulty and the size of the game, line 366 generates
change_difficulty ==
    /\ difficulty' = next_difficulty(difficulty)
    /\ size' = DifficultyValue(difficulty')
    /\ generate_solvable_puzzle_begin(size')
    /\ UNCHANGED <<moves, start_time, repaired>>

\* the moves accepted on board s = [grid, blank_pos], as the boards they leave
accepted_moves(s, n) ==
    {swap_tiles(s.grid, s.blank_pos, rc[1], rc[2]) :
        rc \in {x \in Idx(n) \X Idx(n) :
                   can_move_tile(s.grid, s.blank_pos, n, x[1], x[2])}}

\* whether at most k accepted move_tile calls lead from one of the boards
\* of S to a board on which is_solved() is True
RECURSIVE solved_within(_, _, _)
solved_within(S, n, k) ==
    IF \E s \in S : is_solved(s.grid, n) THEN TRUE
    ELSE IF k = 0 THEN FALSE
    ELSE solved_within(UNION {accepted_moves(s, n) : s \in S}, n, k - 1)

\* whether some sequence of accepted move_tile calls, of any length, leads
\* from one of the boards of frontier to a board on which is_solved() is
\* True: a breadth-first search over every accepted move; seen are the
\* boards already visited
RECURSIVE reaches_solved(_, _, _)
reaches_solved(frontier, seen, n) ==
    IF \E s \in frontier : is_solved(s.grid, n) THEN TRUE
    ELSE LET further == UNION {accepted_moves(s, n) : s \in frontier} \ seen
         IN  IF further = {} THEN FALSE
             ELSE reaches_solved(further, seen \cup further, n)

\* the values row and col take in the calls of move_tile and on_tile_click
Args(n) == (0 - ArgSlack) .. (n - 1 + ArgSlack)

\* a tile is clicked: on_tile_click(row, col), which calls move_tile
MoveTile ==
    /\ pc = "idle"
    /\ \E row \in Args(size), col \in Args(size) :
        /\ can_move_tile(grid, blank_pos, size, row, col) => moves < MaxMoves
        /\ on_tile_click(row, col)
        /\ op' = "move_tile"
        /\ arg' = <<row, col>>
        /\ accepted' = IF ret' = "True" THEN accepted + 1 ELSE accepted
        \* undo: the call is made on the cell the blank was in before an
        \* accepted move_tile call, right after that call
        /\ before' = [grid |-> grid, blank_pos |-> blank_pos, moves |-> moves,
                      undo |-> /\ op = "move_tile"
                               /\ ret = "True"
                               /\ <<row, col>> = before.blank_pos]
        /\ UNCHANGED <<clock, pc, turn, locals, board, origin>>

\* the Restart button: restart_game starts
RestartGame ==
    /\ pc = "idle"
    /\ restart_game
    /\ op' = "restart_game"
    /\ arg' = <<>>
    /\ ret' = "None"
    /\ win_message' = FALSE
    /\ before' = NoCall
    /\ UNCHANGED <<clock, accepted, board, origin>>

\* the Change Difficulty button: change_difficulty starts
ChangeDifficulty ==
    /\ pc = "idle"
    /\ change_difficulty
    /\ op' = "change_difficulty"
    /\ arg' = <<>>
    /\ ret' = "None"
    /\ win_message' = FALSE
    /\ before' = NoCall
    /\ UNCHANGED <<clock, accepted, board, origin>>

\* the loop of _shuffle_puzzle runs one iteration, with any ordering of the
\* directions
ShuffleTurn ==
    /\ pc = "shuffle"
    /\ turn < shuffle_iterations(size)
    /\ \E s \in shuffle_turn(locals, size) :
          /\ scrambled(s.shuffled, size) <= MaxScrambled
          /\ locals' = s
          /\ turn' = turn + 1
    /\ UNCHANGED <<difficulty, size, grid, blank_pos, moves, start_time, clock,
                   pc, op, arg, ret, repaired, accepted, win_message, before,
                   board, origin>>

\* the loop is over: generate_solvable_puzzle runs to its end and the
\* constructor or the handler that called it returns; before keeps the
\* stats.moves that line 62 replaces
FinishGenerate ==
    /\ pc = "shuffle"
    /\ turn = shuffle_iterations(size)
    /\ generate_solvable_puzzle_end
    /\ accepted' = 0
    /\ before' = [NoCall EXCEPT !.moves = moves]
    /\ UNCHANGED <<difficulty, size, clock, op, arg, ret, win_message,
                   board, origin>>

\* a second passes on the clock, between two handlers; the timer callback
\* (start_timer) only redraws
Tick ==
    /\ pc = "idle"
    /\ clock < MaxClock
    /\ clock' = clock + 1
    /\ op' = "tick"
    /\ arg' = <<>>
    /\ ret' = "None"
    /\ win_message' = FALSE
    /\ before' = NoCall
    /\ UNCHANGED <<difficulty, size, grid, blank_pos, moves, start_time,
                   pc, turn, locals, repaired, accepted, board, origin>>

Next ==
    \/ ShuffleTurn
    \/ FinishGenerate
    \/ MoveTile
    \/ RestartGame
    \/ ChangeDifficulty
    \/ Tick

Spec == Init /\ [][Next]_vars

(***************************************************************************)
(* The core specification: the game, and the core constructed by a caller  *)
(* with a difficulty whose value is not positive.                          *)
(***************************************************************************)
NonPositiveSizes == (0 - MaxBadSize) .. 0

\* the list of lists of line 48, before the blank is put in
NumberedGrid(n) ==
    [row \in Idx(n) |-> [col \in Idx(n) |-> row * n + col + 1]]

\* SlidingPuzzleGame(difficulty) with difficulty.value = n <= 0.  Lines
\* 38-42 set the fields; in generate_solvable_puzzle range(n) is empty, so
\* line 48 leaves the empty list in self.grid and line 50 indexes it, which
\* raises IndexError out of the constructor.
SlidingPuzzleGame(n) ==
    /\ difficulty' = "CUSTOM"
    /\ size' = n
    /\ grid' = NumberedGrid(n)
    /\ blank_pos' = <<0, 0>>
    /\ moves' = 0
    /\ start_time' = 0
    /\ ret' = "IndexError"
    /\ UNCHANGED <<repaired, pc, turn, locals>>

Construct ==
    /\ pc = "idle"
    /\ \E n \in NonPositiveSizes :
        /\ SlidingPuzzleGame(n)
        /\ op' = "__init__"
        /\ arg' = <<n>>
        /\ accepted' = 0
        /\ win_message' = FALSE
        /\ before' = NoCall
        /\ UNCHANGED <<clock, board, origin>>

\* no handler runs on a game whose construction raised
NextCore ==
    \/ Construct
    \/ ret # "IndexError" /\ Next

SpecCore == Init /\ [][NextCore]_vars

(***************************************************************************)
(* The board specification: the pure functions on every permutation board  *)
(* of size 2 and 3.  board is the board they are applied to, with its size *)
(* and the coordinate of its blank; no game is running.  The boards are    *)
(* enumerated by the slides of the shuffle from the solved board and from  *)
(* the solved board with its last two tiles exchanged (the unsolvable      *)
(* board of test_solvability_algorithm); origin records which of the two a *)
(* board was reached from.                                                 *)
(***************************************************************************)
BoardSizes == {2, 3}

\* the solved board with its last two tiles (row-major) exchanged
SwappedGrid(n) ==
    LET k1 == n * n - 2
        k2 == n * n - 3
        g == SolvedGrid(n)
    IN  [[g EXCEPT ![k1 \div n][k1 % n] = g[k2 \div n][k2 % n]]
            EXCEPT ![k2 \div n][k2 % n] = g[k1 \div n][k1 % n]]

InitBoards ==
    /\ origin \in {"solved", "swapped"}
    /\ \E n \in BoardSizes :
          board = [size |-> n,
                   grid |-> IF origin = "solved" THEN SolvedGrid(n) ELSE SwappedGrid(n),
                   blank_pos |-> <<n - 1, n - 1>>]
    /\ difficulty = "NONE"
    /\ size = 0
    /\ grid = <<>>
    /\ blank_pos = <<>>
    /\ locals = NoLocals
    /\ turn = 0
    /\ pc = "boards"
    /\ clock = 0
    /\ moves = 0
    /\ start_time = 0
    /\ accepted = 0
    /\ repaired = FALSE
    /\ op = "board"
    /\ arg = <<>>
    /\ ret = "None"
    /\ win_message = FALSE
    /\ before = NoCall

\* the boards one iteration of the shuffle loop, lines 72-82, leaves from
\* grid g with the blank at bp, over every ordering of the directions
shuffle_successors(g, bp, n) ==
    shuffle_turn([shuffled |-> g, blank_row |-> bp[1], blank_col |-> bp[2]], n)

\* a slide: the body of the shuffle loop, lines 72-82, applied to the board
\* under some ordering of the directions
Slide ==
    /\ \E s \in shuffle_successors(board.grid, board.blank_pos, board.size) :
          board' = [size |-> board.size,
                    grid |-> s.shuffled,
                    blank_pos |-> <<s.blank_row, s.blank_col>>]
    /\ UNCHANGED <<difficulty, size, grid, blank_pos, moves, start_time, clock,
                   pc, turn, locals, op, arg, ret, repaired, accepted,
                   win_message, before, origin>>

NextBoards == Slide

SpecBoards == InitBoards /\ [][NextBoards]_vars

(***************************************************************************)
(* The claims.                                                             *)
(***************************************************************************)
\* the calls that run generate_solvable_puzzle
GenerateOps == {"init", "restart_game", "change_difficulty"}

\* generate_solvable_puzzle has just returned
Generated == pc = "idle" /\ op \in GenerateOps

\* each value of 0 .. n*n-1 is held by exactly one cell of an n x n grid
IsPermutationBoard(g, n) ==
    /\ DOMAIN g = Idx(n)
    /\ \A row \in Idx(n) : DOMAIN g[row] = Idx(n)
    /\ \A v \in 0 .. (n * n - 1) :
          Cardinality({rc \in Cells(n) : g[rc[1]][rc[2]] = v}) = 1

\* C1: in every state reached by generate_solvable_puzzle and move_tile
\* calls (accepted or rejected, any arguments) the grid is a permutation
\* of 0 .. N*N-1 and blank_pos is the cell that holds 0; while the shuffle
\* runs the same holds of its board and of its blank_row, blank_col.
C1_BoardInvariant ==
    /\ IsPermutationBoard(grid, size)
    /\ blank_pos \in Cells(size)
    /\ grid[blank_pos[1]][blank_pos[2]] = 0
    /\ pc = "shuffle" =>
          /\ IsPermutationBoard(locals.shuffled, size)
          /\ <<locals.blank_row, locals.blank_col>> \in Cells(size)
          /\ locals.shuffled[locals.blank_row][locals.blank_col] = 0

\* C1 witness: a rejected call after two accepted moves took the blank
\* away from where generation left it.
C1_Witness ==
    /\ op = "move_tile"
    /\ ret = "False"
    /\ moves >= 2
    /\ blank_pos[1] # blank_pos[2]

\* C2: the board left by generate_solvable_puzzle() passes
\* _check_solvability(), for every size and every random outcome.
C2_GeneratedSolvable ==
    Generated => _check_solvability(grid, size)

\* C2 witness: a 4 x 4 board left by a change of difficulty with the blank
\* off the bottom row, where the even-size rule counts the blank's row.
C2_Witness ==
    /\ Generated
    /\ op = "change_difficulty"
    /\ size = MEDIUM
    /\ blank_pos[1] # size - 1
    /\ _check_solvability(grid, size)

\* C3: from every board generate_solvable_puzzle() leaves, some finite
\* sequence of accepted move_tile calls reaches a board on which
\* is_solved() is True.
C3_GeneratedCanBeSolved ==
    Generated =>
        reaches_solved({[grid |-> grid, blank_pos |-> blank_pos]},
                       {[grid |-> grid, blank_pos |-> blank_pos]}, size)

\* C3 witness: a generated board that is not solved, that no sequence of
\* fewer than six moves solves and that some sequence solves.
C3_Witness ==
    /\ Generated
    /\ ~is_solved(grid, size)
    /\ ~solved_within({[grid |-> grid, blank_pos |-> blank_pos]}, size, 5)
    /\ reaches_solved({[grid |-> grid, blank_pos |-> blank_pos]},
                      {[grid |-> grid, blank_pos |-> blank_pos]}, size)

\* a literal board, rows <<...>>, as a grid
Board(rows) ==
    [row \in Idx(Len(rows)) |-> [col \in Idx(Len(rows)) |-> rows[row + 1][col + 1]]]

\* the parity rule as the claim words it: the pairs i < j of the row-major
\* flattening without the blank with value[i] > value[j], and the blank's row
ParityRule(g, n) ==
    LET Value(k) == g[k \div n][k % n]
        tiles == {k \in 0 .. (n * n - 1) : Value(k) # 0}
        inversions ==
            Cardinality({p \in tiles \X tiles : p[1] < p[2] /\ Value(p[1]) > Value(p[2])})
        blankRow == CHOOSE row \in Idx(n) : \E col \in Idx(n) : g[row][col] = 0
    IN  IF n % 2 = 1
        THEN inversions % 2 = 0
        ELSE (inversions + (n - blankRow)) % 2 = 1

\* the three boards of test_solvability_algorithm
C4_Examples ==
    /\ _check_solvability(Board(<<(<<1, 2, 3>>), <<4, 5, 6>>, <<7, 8, 0>> >>), 3) = TRUE
    /\ _check_solvability(Board(<<(<<1, 2, 3>>), <<4, 5, 6>>, <<8, 7, 0>> >>), 3) = FALSE
    /\ _check_solvability(Board(<<(<<1, 2, 3, 4>>), <<5, 6, 7, 8>>,
                                  <<9, 10, 11, 12>>, <<13, 14, 15, 0>> >>), 4) = TRUE

\* C4: on every permutation board of size 2 and 3 _check_solvability
\* returns what the parity rule gives; it returns True on the solved 3 x 3
\* board, False on [[1,2,3],[4,5,6],[8,7,0]] and True on the solved 4 x 4
\* board.
C4_ParityRule ==
    /\ _check_solvability(board.grid, board.size) = ParityRule(board.grid, board.size)
    /\ C4_Examples

\* C4 witness: an even board with inversions and the blank in its top row,
\* which the rule rejects.
C4_Witness ==
    /\ board.size = 2
    /\ board.blank_pos[1] = 0
    /\ count_inversions(flat_puzzle(board.grid, board.size)) > 0
    /\ ~_check_solvability(board.grid, board.size)

\* the slide just made can be undone by one accepted move
SlideUndone ==
    /\ can_move_tile(board'.grid, board'.blank_pos, board.size,
                     board.blank_pos[1], board.blank_pos[2])
    /\ swap_tiles(board'.grid, board'.blank_pos,
                  board.blank_pos[1], board.blank_pos[2]).grid = board.grid

\* the slides of the shuffle from the board are the moves move_tile accepts
\* on it
SlidesAreMoves ==
    {[grid |-> s.shuffled, blank_pos |-> <<s.blank_row, s.blank_col>>] :
        s \in shuffle_successors(board.grid, board.blank_pos, board.size)}
      = accepted_moves(board, board.size)

\* C5: on every permutation board of size 2 and 3, _check_solvability()
\* is True exactly when legal slides lead from the board to the solved
\* board.  The boards slides connect to the solved board are those of
\* origin "solved" (every slide is a move move_tile accepts, and can be
\* undone by one); those of origin "swapped" are all the others, and no
\* slide takes one of them to the solved board.
C5_ParityIsSolvability ==
    /\ [](_check_solvability(board.grid, board.size) <=> origin = "solved")
    /\ [](origin = "swapped" => ~is_solved(board.grid, board.size))
    /\ [](SlidesAreMoves)
    /\ [][SlideUndone]_vars

\* C5 witness: a 3 x 3 board far from the solved board that is connected
\* to it, with the blank in the top left corner.
C5_Witness ==
    /\ board.size = 3
    /\ origin = "solved"
    /\ board.blank_pos = <<0, 0>>
    /\ board.grid[2][2] = 1
    /\ _check_solvability(board.grid, board.size)

\* the cell that holds 0, found by scanning the grid
ScannedBlank(g, n) == CHOOSE rc \in Cells(n) : g[rc[1]][rc[2]] = 0

\* the claim's wording of can_move_tile, with the blank at cell blank
MayMove(g, n, blank, row, col) ==
    /\ 0 <= row /\ row < n /\ 0 <= col /\ col < n
    /\ g[row][col] # 0
    /\ Abs(row - blank[1]) + Abs(col - blank[2]) = 1

\* the board of test_move_validation, blank at (1, 1)
C6_Examples ==
    LET puzzle == Board(<<(<<1, 2, 3>>), <<4, 0, 5>>, <<6, 7, 8>> >>)
    IN  {rc \in Cells(3) : can_move_tile(puzzle, <<1, 1>>, 3, rc[1], rc[2])}
           = {<<0, 1>>, <<1, 0>>, <<1, 2>>, <<2, 1>>}

\* C6: in every reachable state and for every row, col (negative and
\* out-of-range values too) can_move_tile(row, col) is True exactly when
\* (row, col) is on the board, is not the blank and is at distance 1 of
\* the cell that holds 0; on [[1,2,3],[4,0,5],[6,7,8]] it is True for
\* (0,1), (1,0), (1,2), (2,1) and False for (0,0), (2,2), (1,1).
C6_CanMoveTile ==
    /\ LET blank == ScannedBlank(grid, size)
       IN  \A row \in Args(size), col \in Args(size) :
              can_move_tile(grid, blank_pos, size, row, col)
                 <=> MayMove(grid, size, blank, row, col)
    /\ C6_Examples

\* C6 witness: after an accepted move the blank is in the middle of the
\* 3 x 3 board, four tiles can move and the corners cannot.
C6_Witness ==
    /\ size = 3
    /\ op = "move_tile"
    /\ ret = "True"
    /\ blank_pos = <<1, 1>>
    /\ can_move_tile(grid, blank_pos, size, 0, 1)
    /\ ~can_move_tile(grid, blank_pos, size, 0, 0)
    /\ ~can_move_tile(grid, blank_pos, size, -1, 1)

\* C7: an accepted move_tile(row, col) returns True, puts the tile of
\* (row, col) in the old blank cell and 0 in (row, col), sets blank_pos to
\* (row, col), adds one to stats.moves and leaves every other cell, the
\* size, the difficulty and stats.start_time as they were.
C7_AcceptedMove ==
    [][op' = "move_tile"
         /\ can_move_tile(grid, blank_pos, size, arg'[1], arg'[2])
       => /\ ret' = "True"
          /\ grid'[blank_pos[1]][blank_pos[2]] = grid[arg'[1]][arg'[2]]
          /\ grid'[arg'[1]][arg'[2]] = 0
          /\ blank_pos' = arg'
          /\ moves' = moves + 1
          /\ \A rc \in Cells(size) \ {blank_pos, arg'} :
                grid'[rc[1]][rc[2]] = grid[rc[1]][rc[2]]
          /\ DOMAIN grid' = DOMAIN grid
          /\ size' = size
          /\ difficulty' = difficulty
          /\ start_time' = start_time]_vars

\* C7 witness: an accepted move made after the clock has moved on from
\* the start time.
C7_Witness ==
    /\ op = "move_tile"
    /\ ret = "True"
    /\ blank_pos = arg
    /\ moves >= 1
    /\ clock > start_time

\* C8: a move_tile(row, col) for which can_move_tile is False returns
\* False and leaves the grid, blank_pos and stats.moves as they were.
C8_RejectedMove ==
    [][op' = "move_tile"
         /\ ~can_move_tile(grid, blank_pos, size, arg'[1], arg'[2])
       => /\ ret' = "False"
          /\ grid' = grid
          /\ blank_pos' = blank_pos
          /\ moves' = moves]_vars

\* C8 witness: a rejected call with a negative row, made after an accepted
\* move.
C8_Witness ==
    /\ op = "move_tile"
    /\ ret = "False"
    /\ arg[1] < 0
    /\ moves >= 1

\* C9: stats.moves never decreases in a move_tile call, grows by exactly 1
\* in a call that returns True and is unchanged in a call that returns
\* False; it is the number of accepted moves since the last generate.
C9_MoveCount ==
    /\ [][op' = "move_tile"
            => /\ moves' >= moves
               /\ ret' = "True" => moves' = moves + 1
               /\ ret' = "False" => moves' = moves]_vars
    /\ [](moves = accepted)

\* C9 witness: a generate made after the clock moved on has reset the
\* count, two moves were accepted since and a rejected call followed.
C9_Witness ==
    /\ op = "move_tile"
    /\ ret = "False"
    /\ moves = 2
    /\ accepted = 2
    /\ start_time > 0

\* the canonical solved board, cell by cell
IsCanonical(g, n) ==
    \A rc \in Cells(n) :
        g[rc[1]][rc[2]] = IF rc = <<n - 1, n - 1>> THEN 0 ELSE rc[1] * n + rc[2] + 1

\* the two boards of test_solution_detection
C10_Examples ==
    /\ is_solved(Board(<<(<<1, 2, 3>>), <<4, 5, 6>>, <<7, 8, 0>> >>), 3) = TRUE
    /\ is_solved(Board(<<(<<1, 2, 3>>), <<4, 5, 6>>, <<7, 0, 8>> >>), 3) = FALSE

\* C10: on every permutation board of size 2 and 3 is_solved() is True
\* exactly when the grid is the canonical solved board; it is True on
\* [[1,2,3],[4,5,6],[7,8,0]] and False on [[1,2,3],[4,5,6],[7,0,8]].
C10_IsSolved ==
    /\ is_solved(board.grid, board.size) <=> IsCanonical(board.grid, board.size)
    /\ C10_Examples

\* C10 witness: the board [[1,2,3],[4,5,6],[7,0,8]], one slide from
\* solved, is not solved.
C10_Witness ==
    /\ board.grid = Board(<<(<<1, 2, 3>>), <<4, 5, 6>>, <<7, 0, 8>> >>)
    /\ ~is_solved(board.grid, board.size)

\* C11: once is_solved() is True it stays True under every operation
\* that does not run generate_solvable_puzzle(): no move_tile call, with
\* whatever arguments, takes the puzzle out of the Solved phase.
C11_SolvedStaysSolved ==
    [][is_solved(grid, size) /\ op' \notin GenerateOps
         => is_solved(grid', size)]_vars

\* C12: show_win_message runs in a tile click exactly when move_tile
\* accepted the move and the board is the solved one right after it; it
\* never runs after a rejected click, a timer tick, a restart or a change
\* of difficulty.
C12_WinMessage ==
    /\ [][op' = "move_tile"
            => (win_message'
                  <=> /\ can_move_tile(grid, blank_pos, size, arg'[1], arg'[2])
                      /\ IsCanonical(grid', size))]_vars
    /\ [](win_message => op = "move_tile" /\ ret = "True")
    /\ [](op \in {"tick", "restart_game", "change_difficulty", "init"} => ~win_message)

\* C12 witness: the message is shown after the second accepted move of a
\* game, made after the clock moved on.
C12_Witness ==
    /\ win_message
    /\ op = "move_tile"
    /\ ret = "True"
    /\ is_solved(grid, size)
    /\ moves = 2
    /\ clock > start_time

\* the value of every Difficulty, and of the one change_difficulty goes to
\* from it, is one of 3, 4, 5, 6
DifficultySizes ==
    \A i \in 1 .. Len(Difficulties) :
        /\ DifficultyValue(Difficulties[i]) \in {3, 4, 5, 6}
        /\ DifficultyValue(next_difficulty(Difficulties[i])) \in {3, 4, 5, 6}

\* C13: after every generate_solvable_puzzle() (the construction, a
\* restart or a change of difficulty, from any state) stats.moves is 0,
\* stats.start_time is the clock read in the call, the grid is size x size
\* with size = difficulty.value in 3 .. 6, and the shuffle started from the
\* solved board, whatever the board before.
C13_GenerateResets ==
    /\ [](Generated =>
            /\ moves = 0
            /\ start_time = clock
            /\ DOMAIN grid = Idx(size)
            /\ \A row \in Idx(size) : DOMAIN grid[row] = Idx(size))
    /\ [](/\ size = DifficultyValue(difficulty)
          /\ size \in {3, 4, 5, 6})
    /\ [](DifficultySizes)
    /\ [][pc = "idle" /\ pc' = "shuffle"
            => /\ turn' = 0
               /\ locals' = [shuffled |-> SolvedGrid(size'),
                             blank_row |-> size' - 1,
                             blank_col |-> size' - 1]]_vars

\* C13 witness: a change of difficulty made in the middle of a game, after
\* two moves and after the clock moved on, has returned.
C13_Witness ==
    /\ Generated
    /\ op = "change_difficulty"
    /\ before.moves = 2
    /\ ~is_solved(grid, size)
    /\ clock > 0
    /\ start_time = clock
    /\ moves = 0

\* C14: a core constructed with a zero or negative board size is rejected
\* with an explicit configuration error, and no state that breaks the
\* board invariant is created.
C14_NonPositiveSizeRejected ==
    /\ size <= 0 => ret = "ConfigurationError"
    /\ ret = "ConfigurationError" \/ (size > 0 /\ C1_BoardInvariant)

\* the sizes on which every outcome of the shuffle is computed
ExhaustiveSizes == {2}

\* no outcome of generate on the sizes of ExhaustiveSizes, and no outcome
\* of a constant ordering on the four sizes of Difficulty, went through the
\* repair branch
NoRepairGenerated ==
    /\ \A n \in ExhaustiveSizes : \A o \in generate_outcomes(n) : ~o.repaired
    /\ \A n \in DifficultyValues : \A o \in constant_outcomes(n) : ~o.repaired

\* C15: the board _shuffle_puzzle returns passes _check_solvability(), so
\* generate_solvable_puzzle never runs _make_solvable.  On every board of
\* size 2 and 3 that passes the check, an iteration of the shuffle loop
\* leaves, under every ordering of the directions, a board that passes it
\* (the solved board the loop starts from passes it); and no outcome of
\* generate on a 2 x 2 board went through the repair.
C15_RepairNeverRuns ==
    /\ _check_solvability(board.grid, board.size) =>
          \A s \in shuffle_successors(board.grid, board.blank_pos, board.size) :
              _check_solvability(s.shuffled, board.size)
    /\ _check_solvability(SolvedGrid(board.size), board.size)
    /\ NoRepairGenerated

\* C15 witness: a 3 x 3 board that passes the check, the blank in the
\* middle, from which the shuffle can go four ways.
C15_Witness ==
    /\ board.size = 3
    /\ board.blank_pos = <<1, 1>>
    /\ _check_solvability(board.grid, board.size)
    /\ Cardinality(shuffle_successors(board.grid, board.blank_pos, board.size)) = 4

\* C16: on every permutation board of size 2 and 3 that fails
\* _check_solvability(), _make_solvable() exchanges the values of the first
\* two non-blank cells in row-major order, leaves every other cell (the
\* blank too) as it was, changes the inversion count by exactly one and
\* yields a board that passes _check_solvability().
C16_MakeSolvable ==
    ~_check_solvability(board.grid, board.size) =>
        LET g == board.grid
            n == board.size
            fixed == _make_solvable(g, n)
            tiles == {k \in 0 .. (n * n - 1) : g[k \div n][k % n] # 0}
            k1 == CHOOSE k \in tiles : \A j \in tiles : k <= j
            k2 == CHOOSE k \in tiles \ {k1} : \A j \in tiles \ {k1} : k <= j
        IN  /\ fixed[k1 \div n][k1 % n] = g[k2 \div n][k2 % n]
            /\ fixed[k2 \div n][k2 % n] = g[k1 \div n][k1 % n]
            /\ \A k \in (0 .. (n * n - 1)) \ {k1, k2} :
                  fixed[k \div n][k % n] = g[k \div n][k % n]
            /\ fixed[board.blank_pos[1]][board.blank_pos[2]] = 0
            /\ Abs(count_inversions(flat_puzzle(fixed, n))
                     - count_inversions(flat_puzzle(g, n))) = 1
            /\ _check_solvability(fixed, n)

\* C16 witness: a 3 x 3 board that fails the check with the blank in its
\* first cell, so that the two cells exchanged are the second and third.
C16_Witness ==
    /\ board.size = 3
    /\ origin = "swapped"
    /\ board.blank_pos = <<0, 0>>
    /\ ~_check_solvability(board.grid, board.size)
    /\ _make_solvable(board.grid, board.size)[0][1] = board.grid[0][2]

\* the solved board is among the boards generate leaves: for the four
\* sizes of Difficulty an ordering of the directions, left by random.shuffle
\* in every iteration, leads to it
SolvedGenerated ==
    \A n \in DifficultyValues :
        \E d \in RandomOrders :
            generate_board(shuffle_puzzle_with(SolvedGrid(n), <<n - 1, n - 1>>, n, d), n)
               = [grid |-> SolvedGrid(n), blank_pos |-> <<n - 1, n - 1>>,
                  repaired |-> FALSE]

\* C17: for each size 3 to 6 some sequence of direction choices makes
\* generate_solvable_puzzle() leave the solved board, and generate keeps
\* it: is_solved() is True with stats.moves = 0 and no repair.
C17_GenerateCanReturnSolved ==
    /\ [](SolvedGenerated)
    /\ [](Generated /\ is_solved(grid, size) => moves = 0 /\ ~repaired)
    /\ [][pc = "shuffle" /\ pc' = "idle" /\ is_solved(locals.shuffled, size)
            => /\ grid' = locals.shuffled
               /\ is_solved(grid', size')
               /\ moves' = 0
               /\ ~repaired']_vars

\* C17 witness: a restart left the solved board.
C17_Witness ==
    /\ Generated
    /\ op = "restart_game"
    /\ is_solved(grid, size)
    /\ grid = SolvedGrid(size)
    /\ moves = 0

\* C18: in every state reached from a generated board by move_tile calls,
\* accepted or rejected, _check_solvability() is True, on odd and on even
\* boards.
C18_SolvabilityPreserved ==
    pc = "idle" => _check_solvability(grid, size)

\* C18 witness: on the 4 x 4 board a vertical slide took the blank off the
\* bottom row, and a rejected call followed.
C18_Witness ==
    /\ size = MEDIUM
    /\ op = "move_tile"
    /\ ret = "False"
    /\ moves = 1
    /\ blank_pos = <<size - 2, size - 1>>
    /\ _check_solvability(grid, size)

\* for the four sizes: the shuffle loop runs an even number of iterations,
\* and an iteration moves the blank by exactly one cell, wherever the blank
\* is and whatever the ordering of the directions
ShuffleNeverSkips ==
    \A n \in DifficultyValues :
        /\ (n * n * ShuffleFactor) % 2 = 0
        /\ \A bp \in Cells(n), d \in RandomOrders :
              LET s == ShuffleIteration([shuffled |-> SolvedGrid(n),
                                         blank_row |-> bp[1],
                                         blank_col |-> bp[2]], n, d)
              IN  Abs(s.blank_row - bp[1]) + Abs(s.blank_col - bp[2]) = 1

\* C19: in every state between two calls blank_row + blank_col +
\* stats.moves is even, so is_solved() is True only when stats.moves is
\* even; no iteration of the shuffle is skipped, and while the shuffle runs
\* its blank_row + blank_col + the iterations run is even.
C19_BlankParity ==
    /\ pc = "idle" =>
          /\ (blank_pos[1] + blank_pos[2] + moves) % 2 = 0
          /\ is_solved(grid, size) => moves % 2 = 0
    /\ pc = "shuffle" =>
          (locals.blank_row + locals.blank_col + turn) % 2 = 0
    /\ ShuffleNeverSkips

\* C19 witness: after one accepted move the blank is on a cell of odd
\* row + col.
C19_Witness ==
    /\ op = "move_tile"
    /\ ret = "True"
    /\ moves = 1
    /\ (blank_pos[1] + blank_pos[2]) % 2 = 1

\* the cells for which can_move_tile returns True
movable_cells(g, bp, n) ==
    {rc \in Args(n) \X Args(n) : can_move_tile(g, bp, n, rc[1], rc[2])}

\* C20: in every reachable state, the solved one included, the cells for
\* which can_move_tile is True are the cardinal neighbours of the blank
\* that are on the board, and there are between 2 and 4 of them.
C20_MovableCells ==
    LET blank == ScannedBlank(grid, size)
        neighbours ==
            {rc \in Cells(size) :
                \/ rc[1] = blank[1] /\ Abs(rc[2] - blank[2]) = 1
                \/ rc[2] = blank[2] /\ Abs(rc[1] - blank[1]) = 1}
        movable == movable_cells(grid, blank_pos, size)
    IN  /\ movable = neighbours
        /\ 2 <= Cardinality(movable)
        /\ Cardinality(movable) <= 4

\* C20 witness: the board was solved by play, the blank is in its corner
\* and two tiles can move.
C20_Witness ==
    /\ pc = "idle"
    /\ is_solved(grid, size)
    /\ moves > 0
    /\ Cardinality(movable_cells(grid, blank_pos, size)) = 2

\* C21: an accepted move_tile(r, c) made with the blank at (br, bc) can be
\* undone: move_tile(br, bc) is accepted in the state it leaves, and made
\* right after it returns True and puts the grid and blank_pos back as
\* they were before the first move, with stats.moves larger by 2.
C21_MoveUndone ==
    /\ [][op' = "move_tile" /\ ret' = "True"
            => can_move_tile(grid', blank_pos', size, blank_pos[1], blank_pos[2])]_vars
    /\ [][op = "move_tile" /\ ret = "True"
            /\ op' = "move_tile" /\ arg' = before.blank_pos
            => /\ ret' = "True"
               /\ grid' = before.grid
               /\ blank_pos' = before.blank_pos
               /\ moves' = before.moves + 2]_vars

\* C21 witness: the second of two accepted moves was made on the cell the
\* blank was in before the first.
C21_Witness ==
    /\ op = "move_tile"
    /\ ret = "True"
    /\ before.undo
    /\ moves = 2
    /\ before.moves = 1

====
